---- MODULE Spec2Model ----
(***************************************************************************)
(* Model of the DHT11 driver of src/src/dht11.rs: the protocol state       *)
(* machine (measure / step), the pulse decoder (read_data, pulse_count,    *)
(* checksum) and the polling caller of src/src/lib.rs.                     *)
(*                                                                         *)
(* An action is the code the task runs between two suspension points       *)
(* (.await): the driver is one cooperative task, so nothing else runs in   *)
(* between.  Time is the monotonic millisecond clock Instant::now().       *)
(***************************************************************************)
EXTENDS Integers, Sequences, FiniteSets, TLC

VARIABLES
    state,            \* Dht11.state (DhtState)
    data,             \* Dht11.data: [u8; 5], indices 1..5 for data[0..=4]
    dht_timestamp,    \* Dht11.dht_timestamp (ms)
    pin,              \* Dht11.pin: output latch, output/input enable
    now,              \* Instant::now().as_millis()
    overflow_checks,  \* whether the build traps integer overflow (debug) or wraps (release)
    pc,               \* where the task is: "caller", "measure", a sleep, "panicked"
    result,           \* what the last finished measure() returned
    wave,             \* the line waveform the most recent decode polled (SpecDecode's input)
    counts,           \* history: read_data's local `cycles` array as the last decode left it
    polled,           \* history: pulse_count calls made by the current call / decode
    zeroed,           \* history: whether a data pulse sampled by the last decode had count 0
    visited,          \* history: values Dht11.state took during the current call
    decodes,          \* history: read_data calls made by the current call
    starts,           \* history: start signals (line driven low) in the current call
    sleeps,           \* history: the suspensions (microseconds) of the current call
    lastDecode,       \* history: outcome of the most recent read_data, "NotRun" before
    lastReadAt,       \* history: clock at the most recent Read step, -1 before
    triggerGap        \* history: at the last start signal, clock - lastReadAt (-1: no Read before)

vars == <<state, data, dht_timestamp, pin, now, overflow_checks, pc, result, wave,
          counts, polled, zeroed, visited, decodes, starts, sleeps, lastDecode, lastReadAt,
          triggerGap>>

----------------------------------------------------------------------------
(* Program constants *)

COOLDOWN_TIME_MS == 2000
max_cycles == 10000
INIT_HOLD_MS == 250
START_SIGNAL_MS == 20
REPLY_WAIT_US == 15
CALLER_PERIOD_MS == 500
FRAME_BYTES == 5
DATA_BITS == 40
DATA_PULSES == 80
U8_MODULUS == 256

(* Bounds of the model *)

MaxNow == 2600   \* measure() is not called after this clock value
MaxLow == 2      \* low-hold counts of a healthy data bit range over 1..MaxLow

----------------------------------------------------------------------------
(* Values *)

ZeroFrame == [i \in 1..FRAME_BYTES |-> 0]

ZeroCycles == [i \in 1..DATA_PULSES |-> 0]

NoResult == [tag |-> "None", err |-> "None", humidity |-> 0, temperature |-> 0]

Err(e) == [tag |-> "Err", err |-> e, humidity |-> 0, temperature |-> 0]

Dht11Measurement(h, t) == [tag |-> "Ok", err |-> "None", humidity |-> h, temperature |-> t]

NewPin == [level |-> "low", output_enable |-> FALSE, input_enable |-> FALSE]

----------------------------------------------------------------------------
(* Pure functions of the driver *)

\* f32 sum of two bytes: exact, both are below 256
read_temperature(d) == d[3] + d[4]

\* mutant: the decimal byte left out
read_humidity_IntegralOnly(d) == d[1]

read_humidity(d) == d[1] + d[2]

\* u8 `+` as Iterator::sum applies it: wraps, or traps when the build checks overflow.
\* -1 stands for the panic.
AddU8(a, b, ovf) ==
    IF a < 0 THEN -1
    ELSE IF a + b >= U8_MODULUS THEN (IF ovf THEN -1 ELSE (a + b) % U8_MODULUS)
    ELSE a + b

SumPrefix(d, ovf) == AddU8(AddU8(AddU8(AddU8(0, d[1], ovf), d[2], ovf), d[3], ovf), d[4], ovf)

\* mutant: the sum of the four bytes compared without wrapping to a u8
checksum_NoWrap(d, ovf) ==
    IF d[5] = d[1] + d[2] + d[3] + d[4] THEN "None" ELSE "Checksum"

\* "None" is Ok(()), "Checksum" the error, "Panic" the overflow trap inside sum()
checksum(d, ovf) ==
    LET s == SumPrefix(d, ovf)
    IN  IF s < 0 THEN "Panic"
        ELSE IF d[5] = s THEN "None"
        ELSE "Checksum"

\* mutant: `count >= self.max_cycles - 1`, the budget one poll short
pulse_count_Early(level, seg) ==
    LET held == IF seg.level = level THEN seg.polls ELSE 0
    IN  IF held >= max_cycles - 1
        THEN [err |-> "Timeout", count |-> 0]
        ELSE [err |-> "None", count |-> held]

\* mutant: `count > self.max_cycles`, one poll too many
pulse_count_OffByOne(level, seg) ==
    LET held == IF seg.level = level THEN seg.polls ELSE 0
    IN  IF held > max_cycles
        THEN [err |-> "Timeout", count |-> 0]
        ELSE [err |-> "None", count |-> held]

\* One pulse_count call.  seg describes the line from the first poll of the call on:
\* it reads seg.level for seg.polls consecutive polls and the opposite level at the
\* next one.  count is incremented once per poll that finds the expected level, and
\* the loop gives up when count reaches max_cycles.
pulse_count(level, seg) ==
    LET held == IF seg.level = level THEN seg.polls ELSE 0
    IN  IF held >= max_cycles
        THEN [err |-> "Timeout", count |-> 0]
        ELSE [err |-> "None", count |-> held]

\* u8 `<<= 1` and `|= 1`
Shl1(b) == (b * 2) % U8_MODULUS

Or1(b) == IF b % 2 = 0 THEN b + 1 ELSE b

\* for i in (0..80).step_by(2): the 80 data pulses; w[1], w[2] are the reply pulses
RECURSIVE SampleLoop(_, _, _)
SampleLoop(i, cycles, w) ==
    IF i >= DATA_PULSES
    THEN [err |-> "None", cycles |-> cycles, polled |-> i + 2]
    ELSE LET lo == pulse_count(FALSE, w[i + 3])
         IN  IF lo.err # "None"
             THEN [err |-> lo.err, cycles |-> cycles, polled |-> i + 3]
             ELSE LET hi == pulse_count(TRUE, w[i + 4])
                  IN  IF hi.err # "None"
                      THEN [err |-> hi.err,
                            cycles |-> [cycles EXCEPT ![i + 1] = lo.count],
                            polled |-> i + 4]
                      ELSE SampleLoop(i + 2,
                                      [cycles EXCEPT ![i + 1] = lo.count,
                                                     ![i + 2] = hi.count],
                                      w)

\* mutant: `high_cycles >= low_cycles` decides a 1
RECURSIVE Reconstruct_GreaterOrEqual(_, _, _)
Reconstruct_GreaterOrEqual(i, d, cycles) ==
    IF i >= DATA_BITS
    THEN [err |-> "None", data |-> d]
    ELSE LET low_cycles == cycles[2 * i + 1]
             high_cycles == cycles[2 * i + 2]
             byte == (i \div 8) + 1
         IN  IF low_cycles = 0 \/ high_cycles = 0
             THEN [err |-> "Data", data |-> d]
             ELSE Reconstruct_GreaterOrEqual(i + 1,
                              [d EXCEPT ![byte] = IF high_cycles >= low_cycles
                                                  THEN Or1(Shl1(d[byte]))
                                                  ELSE Shl1(d[byte])],
                              cycles)

\* mutant: only the low-hold count is tested for zero
RECURSIVE Reconstruct_LowOnly(_, _, _)
Reconstruct_LowOnly(i, d, cycles) ==
    IF i >= DATA_BITS
    THEN [err |-> "None", data |-> d]
    ELSE LET low_cycles == cycles[2 * i + 1]
             high_cycles == cycles[2 * i + 2]
             byte == (i \div 8) + 1
         IN  IF low_cycles = 0
             THEN [err |-> "Data", data |-> d]
             ELSE Reconstruct_LowOnly(i + 1,
                              [d EXCEPT ![byte] = IF high_cycles > low_cycles
                                                  THEN Or1(Shl1(d[byte]))
                                                  ELSE Shl1(d[byte])],
                              cycles)

\* for i in 0..40: bit reconstruction into data[i / 8]
RECURSIVE Reconstruct(_, _, _)
Reconstruct(i, d, cycles) ==
    IF i >= DATA_BITS
    THEN [err |-> "None", data |-> d]
    ELSE LET low_cycles == cycles[2 * i + 1]
             high_cycles == cycles[2 * i + 2]
             byte == (i \div 8) + 1
         IN  IF low_cycles = 0 \/ high_cycles = 0
             THEN [err |-> "Data", data |-> d]
             ELSE Reconstruct(i + 1,
                              [d EXCEPT ![byte] = IF high_cycles > low_cycles
                                                  THEN Or1(Shl1(d[byte]))
                                                  ELSE Shl1(d[byte])],
                              cycles)

ZeroSampled(cycles, n) == \E k \in 1..DATA_PULSES : k + 2 <= n /\ cycles[k] = 0

\* read_data after its 15 us wait: err, the frame it leaves, the pulses it sampled
read_data(d, w, ovf) ==
    LET low == pulse_count(FALSE, w[1])
    IN  IF low.err # "None"
        THEN [err |-> low.err, data |-> d, polled |-> 1, zeroed |-> FALSE,
              cycles |-> ZeroCycles]
        ELSE IF low.count = 0
        THEN [err |-> "ReplyHeaderMissing", data |-> d, polled |-> 1, zeroed |-> FALSE,
              cycles |-> ZeroCycles]
        ELSE LET high == pulse_count(TRUE, w[2])
             IN  IF high.err # "None"
                 THEN [err |-> high.err, data |-> d, polled |-> 2, zeroed |-> FALSE,
                       cycles |-> ZeroCycles]
                 ELSE IF high.count = 0
                 THEN [err |-> "ReplyHeaderMissing", data |-> d, polled |-> 2,
                       zeroed |-> FALSE, cycles |-> ZeroCycles]
                 ELSE LET s == SampleLoop(0, ZeroCycles, w)
                      IN  IF s.err # "None"
                          THEN [err |-> s.err, data |-> d, polled |-> s.polled,
                                zeroed |-> ZeroSampled(s.cycles, s.polled),
                                cycles |-> s.cycles]
                          ELSE LET r == Reconstruct(0, d, s.cycles)
                               IN  [err |-> IF r.err # "None" THEN r.err
                                            ELSE checksum(r.data, ovf),
                                    data |-> r.data,
                                    polled |-> s.polled,
                                    zeroed |-> ZeroSampled(s.cycles, s.polled),
                                    cycles |-> s.cycles]

\* mutant: `>=`, the cooldown ends at exactly 2000 ms
CooldownElapsed_AtThreshold(t, ts) == t - ts >= COOLDOWN_TIME_MS

\* mutant: the comparison turned round
CooldownElapsed_Inverted(t, ts) == t - ts <= COOLDOWN_TIME_MS

\* mutant: the caller's period taken for the cooldown
CooldownElapsed_Short(t, ts) == t - ts > CALLER_PERIOD_MS

\* Instant::now().as_millis() - self.dht_timestamp > COOLDOWN_TIME_MS
CooldownElapsed(t, ts) == t - ts > COOLDOWN_TIME_MS

\* mutant: the error is returned without `self.state = DhtState::Idle`
AfterStep_NoReset(stepErr, st, d) ==
    IF stepErr # "None"
    THEN [state |-> st, ret |-> Err(stepErr)]
    ELSE IF st = "Cooldown"
    THEN [state |-> st, ret |-> Dht11Measurement(read_humidity(d), read_temperature(d))]
    ELSE [state |-> st, ret |-> NoResult]

\* mutant: the step's error is dropped
AfterStep_ErrorDropped(stepErr, st, d) ==
    IF st = "Cooldown"
    THEN [state |-> st, ret |-> Dht11Measurement(read_humidity(d), read_temperature(d))]
    ELSE [state |-> st, ret |-> NoResult]

\* mutant: the measurement is returned one state early
AfterStep_ReturnAtRead(stepErr, st, d) ==
    IF stepErr # "None"
    THEN [state |-> "Idle", ret |-> Err(stepErr)]
    ELSE IF st = "Read" \/ st = "Cooldown"
    THEN [state |-> st, ret |-> Dht11Measurement(read_humidity(d), read_temperature(d))]
    ELSE [state |-> st, ret |-> NoResult]

\* mutant: an error sends the state machine back to Init
AfterStep_ErrorToInit(stepErr, st, d) ==
    IF stepErr # "None"
    THEN [state |-> "Init", ret |-> Err(stepErr)]
    ELSE IF st = "Cooldown"
    THEN [state |-> st, ret |-> Dht11Measurement(read_humidity(d), read_temperature(d))]
    ELSE [state |-> st, ret |-> NoResult]

\* mutant: an error is not returned, the loop tries again from Idle
AfterStep_Retry(stepErr, st, d) ==
    IF stepErr # "None"
    THEN [state |-> "Idle", ret |-> NoResult]
    ELSE IF st = "Cooldown"
    THEN [state |-> st, ret |-> Dht11Measurement(read_humidity(d), read_temperature(d))]
    ELSE [state |-> st, ret |-> NoResult]

\* measure() after step().await: an error resets the state and is returned, the
\* state Cooldown returns the measurement, anything else loops.
AfterStep(stepErr, st, d) ==
    IF stepErr # "None"
    THEN [state |-> "Idle", ret |-> Err(stepErr)]
    ELSE IF st = "Cooldown"
    THEN [state |-> st, ret |-> Dht11Measurement(read_humidity(d), read_temperature(d))]
    ELSE [state |-> st, ret |-> NoResult]

----------------------------------------------------------------------------
(* The line: what the sensor and the wiring make the pin read *)

ExampleFrame == <<50, 0, 24, 0, 74>>   \* 0x32 0x00 0x18 0x00 0x4A

BadSumFrame == <<50, 0, 24, 0, 75>>    \* 0x32 0x00 0x18 0x00 0x4B

Frames ==
    { ExampleFrame, BadSumFrame,
      <<37, 5, 21, 3, 66>>,        \* nonzero decimal bytes, checksum right
      <<255, 1, 0, 0, 0>>,         \* prefix sums to 256: wraps to the checksum 0
      <<200, 100, 0, 0, 45>>,      \* prefix sums to 300: checksum wrong either way
      <<0, 0, 0, 0, 0>>,
      <<255, 255, 255, 255, 252>> }

\* bit i (0..39) of a frame as the sensor sends it, most significant bit first
Pow2(n) == IF n = 0 THEN 1 ELSE IF n = 1 THEN 2 ELSE IF n = 2 THEN 4
           ELSE IF n = 3 THEN 8 ELSE IF n = 4 THEN 16 ELSE IF n = 5 THEN 32
           ELSE IF n = 6 THEN 64 ELSE 128

FrameBit(f, i) == (f[(i \div 8) + 1] \div Pow2(7 - (i % 8))) % 2

\* how the sensor's pulses look to the polling loop: the low-hold count of every
\* bit, and whether a 0 bit's high pulse is as long as the low one or shorter
Profiles == [low : 1..MaxLow, zeroEq : BOOLEAN]

Expected(k) == k % 2 = 0    \* pulse k (1..82) is a high pulse iff k is even

HealthyPolls(f, p, k) ==
    IF k <= 2 THEN p.low + 1
    ELSE IF ~Expected(k) THEN p.low
    ELSE IF FrameBit(f, (k - 3) \div 2) = 1 THEN p.low + 1
    ELSE IF p.zeroEq \/ p.low = 1 THEN p.low
    ELSE p.low - 1

\* a fault replaces one pulse: the line at the wrong level at the first poll
\* (count 0), or held for max_cycles - 1, max_cycles or max_cycles + 1 polls
WrongLevel(k) == [level |-> ~Expected(k), polls |-> 1]

Held(k, n) == [level |-> Expected(k), polls |-> n]

FaultSegs(k) ==
    {WrongLevel(k), Held(k, max_cycles - 1), Held(k, max_cycles), Held(k, max_cycles + 1)}

Healthy(f, p) ==
    [k \in 1..(DATA_PULSES + 2) |-> [level |-> Expected(k), polls |-> HealthyPolls(f, p, k)]]


OneFault(f, p, ks) ==
    UNION {{[Healthy(f, p) EXCEPT ![k] = s] : s \in FaultSegs(k)} : k \in ks}

\* a wrong-level data pulse at k and a stuck pulse at q
TwoFaults(f, p, ks, qs) ==
    {[Healthy(f, p) EXCEPT ![x[1]] = WrongLevel(x[1]), ![x[2]] = Held(x[2], max_cycles)] :
        x \in {y \in ks \X qs : y[1] # y[2]}}

FirstProfile == [low |-> 1, zeroEq |-> TRUE]

AllPulses == 1..(DATA_PULSES + 2)

DataPulses == 3..(DATA_PULSES + 2)

StuckAt == {1, 2, 3, 4, 41, 42, DATA_PULSES + 1, DATA_PULSES + 2}

\* the waveforms the decoder is checked against
Waves ==
    {Healthy(f, p) : <<f, p>> \in Frames \X Profiles}
        \cup UNION {OneFault(ExampleFrame, p, AllPulses) : p \in Profiles}
        \cup TwoFaults(ExampleFrame, FirstProfile, DataPulses, StuckAt)
        \cup TwoFaults(ExampleFrame, FirstProfile, {1, 2}, {1, 2, 3})

\* the waveforms a Read step of the state machine can meet
MainFrames == {ExampleFrame, BadSumFrame, <<37, 5, 21, 3, 66>>, <<255, 1, 0, 0, 0>>}

MainWaves ==
    {Healthy(f, FirstProfile) : f \in MainFrames}
        \cup {[Healthy(ExampleFrame, FirstProfile) EXCEPT ![k] = WrongLevel(k)] :
                k \in {1, 2, 4, DATA_PULSES + 1}}
        \cup {[Healthy(ExampleFrame, FirstProfile) EXCEPT ![k] = Held(k, max_cycles)] :
                k \in {1, 2, 20, DATA_PULSES + 2}}
        \cup TwoFaults(ExampleFrame, FirstProfile, {3}, {40})

\* what the frame may hold when read_data starts (the state machine clears it in Init)
PriorFrames == {ZeroFrame, <<255, 255, 255, 255, 255>>, ExampleFrame}

\* frames handed to checksum alone
ByteSamples == {0, 24, 50, 74, 75, 255}

ChecksumFrames == [1..FRAME_BYTES -> ByteSamples]

\* delays the caller puts between two measure() calls (lib.rs waits 500 ms)
Delays == {CALLER_PERIOD_MS, COOLDOWN_TIME_MS, COOLDOWN_TIME_MS + 1}

----------------------------------------------------------------------------
(* The state machine: Dht11::new, the caller's loop, measure and step *)

Init ==
    /\ state = "Idle"
    /\ data = ZeroFrame
    /\ dht_timestamp = 0
    /\ pin = NewPin
    /\ now = 0
    /\ overflow_checks \in BOOLEAN
    /\ pc = "caller"
    /\ result = NoResult
    /\ wave = <<>>
    /\ counts = ZeroCycles
    /\ polled = 0
    /\ zeroed = FALSE
    /\ visited = <<>>
    /\ decodes = 0
    /\ starts = 0
    /\ sleeps = <<>>
    /\ lastDecode = "NotRun"
    /\ lastReadAt = -1
    /\ triggerGap = -1

\* the rest of one iteration of measure()'s loop, after step() left the state st
Continue(stepErr, st, d, vis) ==
    \E a \in {AfterStep(stepErr, st, d)} :
        /\ state' = a.state
        /\ visited' = IF a.state # st THEN Append(vis, a.state) ELSE vis
        /\ IF a.ret.tag = "None"
           THEN pc' = "measure" /\ result' = result
           ELSE pc' = "caller" /\ result' = a.ret

\* lib.rs: dht11.measure().await
MeasureCall ==
    /\ pc = "caller"
    /\ now <= MaxNow
    /\ pc' = "measure"
    /\ visited' = <<state>>
    /\ polled' = 0
    /\ zeroed' = FALSE
    /\ decodes' = 0
    /\ starts' = 0
    /\ sleeps' = <<>>
    /\ UNCHANGED <<state, data, dht_timestamp, pin, now, overflow_checks, result, wave, counts,
                   lastDecode, lastReadAt, triggerGap>>

\* lib.rs: Timer::after between two calls
Wait ==
    /\ pc = "caller"
    /\ \E d \in Delays :
        /\ now + d <= MaxNow
        /\ now' = now + d
    /\ UNCHANGED <<state, data, dht_timestamp, pin, overflow_checks, pc, result, wave, counts,
                   polled, zeroed, visited, decodes, starts, sleeps, lastDecode,
                   lastReadAt, triggerGap>>

StepIdle ==
    /\ pc = "measure"
    /\ state = "Idle"
    /\ Continue("None", "Init", data, Append(visited, "Init"))
    /\ UNCHANGED <<data, dht_timestamp, pin, now, overflow_checks, wave, counts, polled, zeroed,
                   decodes, starts, sleeps, lastDecode, lastReadAt, triggerGap>>

\* mutant: Init without `self.data = [0u8; 5]`
StepInit_NoClear ==
    /\ pc = "measure"
    /\ state = "Init"
    /\ pin' = [pin EXCEPT !.level = "high", !.output_enable = TRUE]
    /\ dht_timestamp' = now
    /\ sleeps' = Append(sleeps, INIT_HOLD_MS * 1000)
    /\ pc' = "init_sleep"
    /\ UNCHANGED <<state, data, now, overflow_checks, result, wave, counts, polled, zeroed,
                   visited, decodes, starts, lastDecode, lastReadAt, triggerGap>>

\* Init up to its Timer::after(250 ms)
StepInit ==
    /\ pc = "measure"
    /\ state = "Init"
    /\ pin' = [pin EXCEPT !.level = "high", !.output_enable = TRUE]
    /\ data' = ZeroFrame
    /\ dht_timestamp' = now
    /\ sleeps' = Append(sleeps, INIT_HOLD_MS * 1000)
    /\ pc' = "init_sleep"
    /\ UNCHANGED <<state, now, overflow_checks, result, wave, counts, polled, zeroed, visited,
                   decodes, starts, lastDecode, lastReadAt, triggerGap>>

\* Timer::after(250 ms) is taken to resume the task at its deadline
InitWake ==
    /\ pc = "init_sleep"
    /\ now' = now + INIT_HOLD_MS
    /\ Continue("None", "BeginMeasurement", data, Append(visited, "BeginMeasurement"))
    /\ UNCHANGED <<data, dht_timestamp, pin, overflow_checks, wave, counts, polled, zeroed,
                   decodes, starts, sleeps, lastDecode, lastReadAt, triggerGap>>

\* BeginMeasurement up to its Timer::after(20 ms): the start signal
StepBeginMeasurement ==
    /\ pc = "measure"
    /\ state = "BeginMeasurement"
    /\ pin' = [pin EXCEPT !.level = "low", !.output_enable = TRUE]
    /\ dht_timestamp' = now
    /\ starts' = starts + 1
    /\ triggerGap' = IF lastReadAt < 0 THEN -1 ELSE now - lastReadAt
    /\ sleeps' = Append(sleeps, START_SIGNAL_MS * 1000)
    /\ pc' = "start_sleep"
    /\ UNCHANGED <<state, data, now, overflow_checks, result, wave, counts, polled, zeroed,
                   visited, decodes, lastDecode, lastReadAt>>

\* Timer::after(20 ms) resumes the task: the start signal ends with the Read step
BeginWake ==
    /\ pc = "start_sleep"
    /\ now' = now + START_SIGNAL_MS
    /\ Continue("None", "Read", data, Append(visited, "Read"))
    /\ UNCHANGED <<data, dht_timestamp, pin, overflow_checks, wave, counts, polled, zeroed,
                   decodes, starts, sleeps, lastDecode, lastReadAt, triggerGap>>

\* mutant: read_data polls the reply without its Timer::after(15 us)
StepRead_NoWait ==
    /\ pc = "measure"
    /\ state = "Read"
    /\ dht_timestamp' = now
    /\ lastReadAt' = now
    /\ state' = "Cooldown"
    /\ visited' = Append(visited, "Cooldown")
    /\ pin' = [level |-> "high", output_enable |-> FALSE, input_enable |-> TRUE]
    /\ pc' = "reply_wait"
    /\ UNCHANGED <<data, now, overflow_checks, result, wave, counts, polled, zeroed, decodes,
                   starts, sleeps, lastDecode, triggerGap>>

\* mutant: read_data without set_output_enable(false), the line stays driven high
StepRead_NoRelease ==
    /\ pc = "measure"
    /\ state = "Read"
    /\ dht_timestamp' = now
    /\ lastReadAt' = now
    /\ state' = "Cooldown"
    /\ visited' = Append(visited, "Cooldown")
    /\ pin' = [level |-> "high", output_enable |-> TRUE, input_enable |-> TRUE]
    /\ sleeps' = Append(sleeps, REPLY_WAIT_US)
    /\ pc' = "reply_wait"
    /\ UNCHANGED <<data, now, overflow_checks, result, wave, counts, polled, zeroed, decodes,
                   starts, lastDecode, triggerGap>>

\* Read, and read_data up to its Timer::after(15 us): the line is released
StepRead ==
    /\ pc = "measure"
    /\ state = "Read"
    /\ dht_timestamp' = now
    /\ lastReadAt' = now
    /\ state' = "Cooldown"
    /\ visited' = Append(visited, "Cooldown")
    /\ pin' = [level |-> "high", output_enable |-> FALSE, input_enable |-> TRUE]
    /\ sleeps' = Append(sleeps, REPLY_WAIT_US)
    /\ pc' = "reply_wait"
    /\ UNCHANGED <<data, now, overflow_checks, result, wave, counts, polled, zeroed, decodes,
                   starts, lastDecode, triggerGap>>

\* read_data from the first pulse_count to its return, then measure()'s checks.
\* The 82 polling loops do not suspend; the time they take is not read by the
\* driver and is left to the caller's Wait.
ReadDecode ==
    /\ pc = "reply_wait"
    /\ \E w \in MainWaves :
        \E r \in {read_data(data, w, overflow_checks)} :
            /\ wave' = w
            /\ counts' = r.cycles
            /\ data' = r.data
            /\ polled' = r.polled
            /\ zeroed' = r.zeroed
            /\ lastDecode' = r.err
            /\ IF r.err = "Panic"
               THEN pc' = "panicked" /\ UNCHANGED <<state, visited, result>>
               ELSE Continue(r.err, state, r.data, visited)
    /\ decodes' = decodes + 1
    /\ UNCHANGED <<dht_timestamp, pin, now, overflow_checks, starts, sleeps,
                   lastReadAt, triggerGap>>

StepCooldown ==
    /\ pc = "measure"
    /\ state = "Cooldown"
    /\ IF CooldownElapsed(now, dht_timestamp)
       THEN Continue("None", "Idle", data, Append(visited, "Idle"))
       ELSE Continue("None", state, data, visited)
    /\ UNCHANGED <<data, dht_timestamp, pin, now, overflow_checks, wave, counts, polled, zeroed,
                   decodes, starts, sleeps, lastDecode, lastReadAt, triggerGap>>

Next ==
    \/ MeasureCall
    \/ Wait
    \/ StepIdle
    \/ StepInit
    \/ InitWake
    \/ StepBeginMeasurement
    \/ BeginWake
    \/ StepRead
    \/ ReadDecode
    \/ StepCooldown

Spec == Init /\ [][Next]_vars

----------------------------------------------------------------------------
(* The decoder alone: read_data and checksum applied to inputs drawn from sets *)

DecodeInit ==
    /\ state = "Cooldown"
    /\ dht_timestamp = 0
    /\ pin = [level |-> "high", output_enable |-> FALSE, input_enable |-> TRUE]
    /\ now = 0
    /\ overflow_checks \in BOOLEAN
    /\ result = NoResult
    /\ counts = ZeroCycles
    /\ polled = 0
    /\ zeroed = FALSE
    /\ visited = <<>>
    /\ decodes = 0
    /\ starts = 0
    /\ sleeps = <<>>
    /\ lastDecode = "NotRun"
    /\ lastReadAt = -1
    /\ triggerGap = -1
    /\ \/ pc = "decode_in" /\ data \in PriorFrames /\ wave \in Waves
       \/ pc = "checksum_in" /\ data \in ChecksumFrames /\ wave = <<>>

\* read_data on the frame and the waveform drawn
ApplyReadData ==
    /\ pc = "decode_in"
    /\ \E r \in {read_data(data, wave, overflow_checks)} :
           /\ counts' = r.cycles
           /\ data' = r.data
           /\ polled' = r.polled
           /\ zeroed' = r.zeroed
           /\ lastDecode' = r.err
    /\ decodes' = decodes + 1
    /\ pc' = "decode_out"
    /\ UNCHANGED <<state, dht_timestamp, pin, now, overflow_checks, result, wave, visited,
                   starts, sleeps, lastReadAt, triggerGap>>

\* checksum on the frame drawn
ApplyChecksum ==
    /\ pc = "checksum_in"
    /\ lastDecode' = checksum(data, overflow_checks)
    /\ pc' = "checksum_out"
    /\ UNCHANGED <<state, data, dht_timestamp, pin, now, overflow_checks, result, wave, counts,
                   polled, zeroed, visited, decodes, starts, sleeps, lastReadAt,
                   triggerGap>>

DecodeNext ==
    \/ ApplyReadData
    \/ ApplyChecksum

SpecDecode == DecodeInit /\ [][DecodeNext]_vars

\* the executor resumes the task whenever it is ready and the timers fire
Fairness ==
    /\ WF_vars(StepIdle)
    /\ WF_vars(StepInit)
    /\ WF_vars(InitWake)
    /\ WF_vars(StepBeginMeasurement)
    /\ WF_vars(BeginWake)
    /\ WF_vars(StepRead)
    /\ WF_vars(ReadDecode)
    /\ WF_vars(StepCooldown)

FairSpec == Init /\ [][Next]_vars /\ Fairness

----------------------------------------------------------------------------
(* Properties *)

FullPath == <<"Idle", "Init", "BeginMeasurement", "Read", "Cooldown">>

Returned(tag) == pc = "caller" /\ result.tag = tag

\* the count pulse k of the waveform gives the polling loop
PulseHeld(k) == IF wave[k].level = Expected(k) THEN wave[k].polls ELSE 0

PrefixSum(d) == (d[1] + d[2] + d[3] + d[4]) % U8_MODULUS

\* C1: a measure() call that returns an error leaves the state Idle, and the call
\* after it reaches its decode through Idle, Init, BeginMeasurement, Read with the
\* raw frame cleared to zeros.
C1_ErrorResetsToIdle ==
    /\ Returned("Err") => state = "Idle"
    /\ (pc = "measure" /\ result.tag = "Err" /\ state = "Read")
           => (visited = SubSeq(FullPath, 1, 4) /\ data = ZeroFrame)
    /\ (pc = "reply_wait" /\ result.tag = "Err")
           => (visited = FullPath /\ data = ZeroFrame)

\* C1 witness: the call after a Data error is about to decode, the frame cleared
C1_Witness ==
    pc = "reply_wait" /\ result.tag = "Err" /\ result.err = "Data" /\ data = ZeroFrame

\* C2 as stated: every measure() call that returns Ok ran the Read step in that
\* same call, with a decode that finished without error.
C2_OkOnlyAfterReadInCall == Returned("Ok") => (decodes = 1 /\ lastDecode = "None")

\* C2 amended: a measure() call returns Ok only when the most recent decode
\* finished without error; that decode ran in the same call, or the call found
\* the driver in Cooldown and ran no decode.
C2_OkOnlyAfterGoodDecode ==
    Returned("Ok") =>
        /\ lastDecode = "None"
        /\ decodes <= 1
        /\ decodes = 0 => visited = <<"Cooldown">>
        /\ decodes = 1 => visited[Len(visited)] = "Cooldown" /\ Len(visited) > 1

\* C2 witness: Ok returned by a call that ran no decode
C2_Witness == Returned("Ok") /\ decodes = 0 /\ lastDecode = "None"

\* C3: the start signal is never given 2000 ms or less after the Read step of the
\* previous measurement attempt began.
C3_CooldownEnforced == triggerGap = -1 \/ triggerGap > COOLDOWN_TIME_MS

\* C4: a successful measure() call that starts in Idle takes the states Init,
\* BeginMeasurement, Read, Cooldown in that order, once each.
C4_SuccessPath ==
    (Returned("Ok") /\ Len(visited) > 0 /\ visited[1] = "Idle") => visited = FullPath

\* C4 witness: a successful call that started in Idle
C4_Witness == Returned("Ok") /\ visited = FullPath /\ decodes = 1

\* C5: checksum passes exactly when the fifth byte is the sum of the first four
\* modulo 256, and fails with Checksum for any other fifth byte.
C5_ChecksumIff ==
    pc = "checksum_out" =>
        /\ data[5] = PrefixSum(data) => lastDecode = "None"
        /\ data[5] # PrefixSum(data) => lastDecode = "Checksum"

\* C6: with 40 nonzero count pairs, bit i of the frame (byte i div 8, bit position
\* 7 - i mod 8) is 1 exactly when high-hold count i is greater than low-hold count
\* i, whatever the magnitudes and whatever the frame held before.
C6_BitReconstruction ==
    (pc = "decode_out" /\ \A k \in AllPulses : PulseHeld(k) > 0 /\ PulseHeld(k) < max_cycles)
        => /\ lastDecode \in {"None", "Checksum", "Panic"}
           /\ \A i \in 0..(DATA_BITS - 1) :
                 (data[(i \div 8) + 1] \div Pow2(7 - (i % 8))) % 2
                     = IF PulseHeld(2 * i + 4) > PulseHeld(2 * i + 3) THEN 1 ELSE 0

\* C6 witness: a frame decoded from counts of very different magnitudes
C6_Witness ==
    /\ pc = "decode_out"
    /\ lastDecode = "None"
    /\ data = ExampleFrame
    /\ \E k \in DataPulses : PulseHeld(k) = max_cycles - 1
    /\ \E k \in DataPulses : PulseHeld(k) = 1

C8_MeasureReturns == [](pc # "caller" => <>(pc = "caller"))

\* C9: the Measurement returned is humidity = byte0 + byte1 and temperature =
\* byte2 + byte3 of a frame that passes the checksum; the frame
\* 0x32 0x00 0x18 0x00 0x4A gives 50 and 24.
C9_MeasurementFromFrame ==
    Returned("Ok") =>
        /\ result.humidity = data[1] + data[2]
        /\ result.temperature = data[3] + data[4]
        /\ data[5] = PrefixSum(data)
        /\ data = ExampleFrame => (result.humidity = 50 /\ result.temperature = 24)

\* C9 witness: a measurement whose decimal bytes are not zero
C9_Witness ==
    Returned("Ok") /\ data = <<37, 5, 21, 3, 66>> /\ result.humidity = 42
        /\ result.temperature = 24

\* C10: a reply pulse with count zero fails the attempt with ReplyHeaderMissing,
\* one that holds until the cycle budget fails it with Timeout, and data pulses
\* are sampled only after both reply pulses counted between 1 and max_cycles - 1.
C10_ReplyHandshake ==
    pc = "decode_out" =>
        /\ PulseHeld(1) = 0 => (lastDecode = "ReplyHeaderMissing" /\ polled = 1)
        /\ PulseHeld(1) >= max_cycles => (lastDecode = "Timeout" /\ polled = 1)
        /\ (PulseHeld(1) \in 1..(max_cycles - 1) /\ PulseHeld(2) = 0)
               => (lastDecode = "ReplyHeaderMissing" /\ polled = 2)
        /\ (PulseHeld(1) \in 1..(max_cycles - 1) /\ PulseHeld(2) >= max_cycles)
               => (lastDecode = "Timeout" /\ polled = 2)
        /\ lastDecode = "ReplyHeaderMissing" => (PulseHeld(1) = 0 \/ PulseHeld(2) = 0)
        /\ polled > 2 => (/\ PulseHeld(1) \in 1..(max_cycles - 1)
                          /\ PulseHeld(2) \in 1..(max_cycles - 1))

\* C10 witness: the high reply pulse held for exactly max_cycles polls
C10_Witness ==
    /\ pc = "decode_out"
    /\ PulseHeld(1) \in 1..(max_cycles - 1)
    /\ PulseHeld(2) = max_cycles
    /\ lastDecode = "Timeout"

\* C11: measure() returns Ok only with the state Cooldown and never returns with
\* the state Init, BeginMeasurement or Read; between calls the state does not
\* change, and a call that finds the state Cooldown leaves it only by a Cooldown
\* step taken more than 2000 ms after the Read step.
C11_CooldownKept ==
    /\ [](Returned("Ok") => state = "Cooldown")
    /\ [](pc = "caller" => state \in {"Idle", "Cooldown"})
    /\ [][pc = "caller" => state' = state]_vars
    /\ [][(pc = "measure" /\ state = "Cooldown" /\ state' # "Cooldown")
              => (state' = "Idle" /\ now - lastReadAt > COOLDOWN_TIME_MS)]_vars

\* C11 witness: a call that found the cooldown elapsed and left Cooldown
C11_Witness ==
    pc = "measure" /\ state = "Idle" /\ visited = <<"Cooldown", "Idle">>
        /\ result.tag = "Ok"

CycleNext(st) ==
    IF st = "Idle" THEN "Init"
    ELSE IF st = "Init" THEN "BeginMeasurement"
    ELSE IF st = "BeginMeasurement" THEN "Read"
    ELSE IF st = "Read" THEN "Cooldown"
    ELSE "Idle"

\* the states of the current call, one after the other, follow the cycle and end
\* in the present state
CycleFollowed ==
    /\ \A i \in 1..(Len(visited) - 1) : visited[i + 1] = CycleNext(visited[i])
    /\ (pc # "caller" /\ Len(visited) > 0) => visited[Len(visited)] = state

\* C12 as stated: every change of the state follows the cycle Idle, Init,
\* BeginMeasurement, Read, Cooldown, Idle, and the state is not Cooldown while the
\* decode of the current attempt has not run.
C12_CooldownAfterDecode ==
    /\ CycleFollowed
    /\ pc = "reply_wait" => state # "Cooldown"

\* C12 amended: every change of the state follows the cycle; the Read step sets
\* Cooldown before the decode starts, the decode runs in that same step, and once
\* the step is over the state is Cooldown only if the decode finished without
\* error.
C12_CycleAndDecode ==
    /\ CycleFollowed
    /\ pc = "reply_wait" => (state = "Cooldown" /\ decodes = 0
                              /\ visited[Len(visited) - 1] = "Read")
    /\ (pc \in {"caller", "measure"} /\ state = "Cooldown") => lastDecode = "None"
    /\ (pc \in {"caller", "measure"} /\ decodes = 1) => state \in {"Cooldown", "Idle"}
    /\ state = "Read" => (pc = "measure" /\ visited[Len(visited) - 1] = "BeginMeasurement")

\* C12 witness: the state is Cooldown and the decode has not started
C12_Witness == pc = "reply_wait" /\ state = "Cooldown" /\ decodes = 0 /\ polled = 0

\* C13: the Cooldown step moves the state to Idle exactly when the clock minus the
\* timestamp taken at the Read step is above 2000; the timestamp is written, with
\* the clock, by the Init, BeginMeasurement and Read steps and by nothing else.
C13_CooldownThreshold ==
    /\ [](state = "Cooldown" => dht_timestamp = lastReadAt)
    /\ [][(pc = "measure" /\ state = "Cooldown")
              => /\ now - lastReadAt > COOLDOWN_TIME_MS => state' = "Idle"
                 /\ now - lastReadAt <= COOLDOWN_TIME_MS => state' = "Cooldown"
                 /\ now' = now]_vars
    /\ [][IF pc = "measure" /\ state \in {"Init", "BeginMeasurement", "Read"}
          THEN dht_timestamp' = now
          ELSE dht_timestamp' = dht_timestamp]_vars

\* C13 witness: a Cooldown step taken exactly 2000 ms after the Read step left the
\* state Cooldown
C13_Witness ==
    /\ Returned("Ok")
    /\ decodes = 0
    /\ state = "Cooldown"
    /\ now - dht_timestamp = COOLDOWN_TIME_MS

\* bit i (0..39) of the frame the counts of the last decode spell
CountedBit(i) == IF counts[2 * i + 2] > counts[2 * i + 1] THEN 1 ELSE 0

\* C14: every decode starts from a frame cleared by the Init step of the same
\* attempt, and every Measurement returned comes from a frame all 40 bits of which
\* were written by the most recent decode, which sampled all its pulses.
C14_FrameNotReused ==
    /\ pc = "reply_wait" =>
           /\ data = ZeroFrame
           /\ \E i \in 1..Len(visited) : visited[i] = "Init"
    /\ Returned("Ok") =>
           /\ lastDecode = "None"
           /\ \A k \in 1..DATA_PULSES : counts[k] > 0
           /\ \A i \in 0..(DATA_BITS - 1) : FrameBit(data, i) = CountedBit(i)
           /\ decodes = 1 => polled = DATA_PULSES + 2

\* C14 witness: a measurement taken right after an attempt that failed
C14_Witness ==
    Returned("Ok") /\ decodes = 1 /\ triggerGap >= 0 /\ triggerGap <= COOLDOWN_TIME_MS

\* C15: a measure() call runs the decoder at most once and gives at most one
\* start signal; a decoder failure ends the call, and no pulse is sampled after
\* the one whose count made the decoder fail with Timeout or ReplyHeaderMissing.
C15_NoRetry ==
    /\ decodes <= 1
    /\ starts <= 1
    /\ decodes = 1 => starts <= 1 /\ Len(visited) >= 2
    /\ (pc \in {"caller", "measure"} /\ decodes = 1 /\ lastDecode # "None")
           => (pc = "caller" /\ result = Err(lastDecode) /\ state = "Idle")
    /\ (decodes = 1 /\ lastDecode = "Timeout")
           => /\ PulseHeld(polled) >= max_cycles
              /\ \A j \in 1..(polled - 1) : PulseHeld(j) < max_cycles
    /\ (decodes = 1 /\ lastDecode = "ReplyHeaderMissing")
           => (polled <= 2 /\ PulseHeld(polled) = 0)
    /\ (decodes = 1 /\ lastDecode \in {"Data", "Checksum"}) => polled = DATA_PULSES + 2

\* C15 witness: a call ended by a Timeout at the 20th pulse, after one start signal
C15_Witness ==
    /\ Returned("Err")
    /\ result.err = "Timeout"
    /\ decodes = 1
    /\ starts = 1
    /\ polled = 20

\* C16: the decoder reports Checksum only after all 82 pulses were counted below the
\* cycle budget with nonzero counts, the 40 bits were shifted into the frame, and the
\* fifth byte differs from the wrapped sum of the first four; a Timeout of a sampled
\* pulse and a missing reply pulse are reported before Data, and Data before Checksum.
C16_ChecksumLast ==
    /\ (pc = "checksum_out" /\ lastDecode = "Checksum") => data[5] # PrefixSum(data)
    /\ pc = "decode_out" =>
         /\ lastDecode = "Checksum" =>
              /\ polled = DATA_PULSES + 2
              /\ \A k \in AllPulses : PulseHeld(k) \in 1..(max_cycles - 1)
              /\ \A k \in 1..DATA_PULSES : counts[k] > 0
              /\ \A i \in 0..(DATA_BITS - 1) : FrameBit(data, i) = CountedBit(i)
              /\ data[5] # PrefixSum(data)
         /\ (\E k \in 1..polled : PulseHeld(k) >= max_cycles) => lastDecode = "Timeout"
         /\ (polled <= 2 /\ PulseHeld(polled) = 0) => lastDecode = "ReplyHeaderMissing"
         /\ (/\ polled = DATA_PULSES + 2
             /\ zeroed
             /\ \A k \in AllPulses : PulseHeld(k) < max_cycles) => lastDecode = "Data"
         /\ lastDecode = "Data" =>
              /\ zeroed
              /\ PulseHeld(1) > 0
              /\ PulseHeld(2) > 0
              /\ \A k \in AllPulses : PulseHeld(k) < max_cycles

\* C16 witness: a complete decode whose fifth byte does not match
C16_Witness ==
    /\ pc = "decode_out"
    /\ lastDecode = "Checksum"
    /\ polled = DATA_PULSES + 2
    /\ ~zeroed

\* the three waits of one attempt, in microseconds, in the order they are awaited
SleepPlan == <<INIT_HOLD_MS * 1000, START_SIGNAL_MS * 1000, REPLY_WAIT_US>>

\* C17: within one measure() call the task suspends only at the 250 ms, 20 ms and
\* 15 us waits, in that order and each at most once, and from the first poll of the
\* reply to the end of the decode it does not suspend: all polls of a call happen in
\* one step that starts after the 15 us wait and adds no wait.
C17_SuspensionPoints ==
    /\ [](/\ Len(sleeps) <= Len(SleepPlan)
          /\ \A i \in 1..Len(sleeps) : sleeps[i] = SleepPlan[i]
          /\ pc = "init_sleep" => Len(sleeps) = 1
          /\ pc = "start_sleep" => Len(sleeps) = 2
          /\ pc = "reply_wait" => (Len(sleeps) = 3 /\ polled = 0)
          /\ polled > 0 => (sleeps = SleepPlan /\ pc \in {"caller", "measure", "panicked"}))
    /\ [][polled' > 0 /\ polled' # polled
              => /\ pc = "reply_wait"
                 /\ pc' \in {"caller", "measure", "panicked"}
                 /\ decodes' = decodes + 1
                 /\ sleeps' = sleeps]_vars
    /\ [][Len(sleeps') > Len(sleeps)
              => /\ pc = "measure"
                 /\ pc' \in {"init_sleep", "start_sleep", "reply_wait"}
                 /\ polled' = 0]_vars

\* C17 witness: a successful call that went through the three waits
C17_Witness ==
    /\ Returned("Ok")
    /\ decodes = 1
    /\ sleeps = SleepPlan
    /\ polled = DATA_PULSES + 2

\* C18: a measure() call that finds the state Cooldown with at most 2000 ms passed
\* since the last Read began returns Ok at once with the humidity and temperature of
\* the previous Ok, and leaves state, frame, timestamp and pin as they were; the call
\* gives no start signal, does not sleep and does not sample the line.
C18_CooldownCallIsIdempotent ==
    [][(/\ pc = "measure"
        /\ state = "Cooldown"
        /\ now - lastReadAt <= COOLDOWN_TIME_MS)
           => /\ pc' = "caller"
              /\ result.tag = "Ok"
              /\ result' = result
              /\ result' = Dht11Measurement(read_humidity(data), read_temperature(data))
              /\ state' = "Cooldown"
              /\ UNCHANGED <<data, dht_timestamp, pin, now>>
              /\ visited' = <<"Cooldown">>
              /\ starts' = 0
              /\ sleeps' = <<>>
              /\ polled' = 0
              /\ decodes' = 0]_vars

\* C18 witness: such a call has returned, one caller period after the Read
C18_Witness ==
    /\ Returned("Ok")
    /\ visited = <<"Cooldown">>
    /\ starts = 0
    /\ sleeps = <<>>
    /\ polled = 0
    /\ now - lastReadAt > 0
    /\ now - lastReadAt < COOLDOWN_TIME_MS

\* C19: the line is not driven while it is sampled: the output drive is disabled and
\* the input enabled during the 15 us wait and in the step that polls, the output
\* drive is enabled only between the Init step and the release in the Read step, and
\* the pin is in input mode whenever a call that ran the Read step has returned.
C19_NoDriveWhileSampling ==
    /\ [](pin.output_enable
              => \/ pc \in {"init_sleep", "start_sleep"}
                 \/ pc = "measure" /\ state \in {"BeginMeasurement", "Read"})
    /\ [](pc = "reply_wait" => (~pin.output_enable /\ pin.input_enable))
    /\ []((pc \in {"caller", "panicked"} /\ lastReadAt >= 0)
              => (~pin.output_enable /\ pin.input_enable))
    /\ [][polled' > 0 /\ polled' # polled
              => /\ ~pin.output_enable
                 /\ pin.input_enable
                 /\ pin' = pin]_vars
    /\ [][(~pin.output_enable /\ pin'.output_enable) => (pc = "measure" /\ state = "Init")]_vars
    /\ [][(pin.output_enable /\ ~pin'.output_enable) => (pc = "measure" /\ state = "Read")]_vars

\* C19 witness: a call that drove the start signal has returned an error of the
\* decoder with the pin released
C19_Witness ==
    /\ Returned("Err")
    /\ decodes = 1
    /\ starts = 1
    /\ lastDecode = "ReplyHeaderMissing"
    /\ ~pin.output_enable
    /\ pin.input_enable

\* the count of pulse k was returned by pulse_count without error in the last decode
Counted(k) == k < polled \/ (k = polled /\ lastDecode # "Timeout")

\* C20: every count pulse_count returns without error lies in 0..max_cycles-1 and is
\* the number of polls the level was held: held for max_cycles-1 polls it is accepted
\* with that count, held for max_cycles polls or more it is a Timeout, and a line at
\* the other level at the first poll counts 0 without error.
C20_CountRange ==
    pc = "decode_out" =>
        /\ \A k \in 1..DATA_PULSES :
               /\ counts[k] \in 0..(max_cycles - 1)
               /\ Counted(k + 2) => counts[k] = PulseHeld(k + 2)
               /\ (Counted(k + 2) /\ wave[k + 2].level # Expected(k + 2)) => counts[k] = 0
               /\ (Counted(k + 2) /\ wave[k + 2] = Held(k + 2, max_cycles - 1))
                      => counts[k] = max_cycles - 1
        /\ \A k \in 1..polled : Counted(k) <=> PulseHeld(k) < max_cycles
        /\ lastDecode = "Timeout" <=> PulseHeld(polled) >= max_cycles
        /\ (polled = 1 /\ wave[1].level # Expected(1)) => lastDecode = "ReplyHeaderMissing"

\* C20 witness: a data pulse held for max_cycles-1 polls was counted without Timeout
C20_Witness ==
    /\ pc = "decode_out"
    /\ lastDecode # "Timeout"
    /\ \E k \in 1..DATA_PULSES : counts[k] = max_cycles - 1 /\ wave[k + 2].polls = max_cycles - 1

====
